---- MODULE Spec2Model ----
(***************************************************************************)
(* Model of the job-control core of repost-proofv2 (src/app.py): the       *)
(* POST /repost-proof handler run by concurrent request threads, the       *)
(* ffmpeg subprocess each job launches, kill_process_tree, the per-job     *)
(* delayed_cleanup timer, the cleanup_old_files retention sweeper, the     *)
(* signal_handler, the /health and /file-download routes, and the media    *)
(* pipeline of src/utils/ffmpeg_mods.py (get_video_info, the tier rule,    *)
(* the two argument-vector builders).                                      *)
(***************************************************************************)
EXTENDS Integers, Sequences, FiniteSets, TLC

(* ------------------------------ bounds -------------------------------- *)
\* number of requests that arrive during a run (each has its own uuid)
NumRequests == 1
\* number of descendants the ffmpeg subprocess of one job may fork
MaxKids == 1
\* number of times the clock advances during a run
MaxTicks == 2
\* number of times the clock advances in the timed runs: enough for it to
\* go past the retention window
MaxTimedTicks == 13

(* ------------------------- program constants -------------------------- *)
\* sizes are in MB, memory in MB, disk in GB
MAX_FILE_SIZE == 100
MAX_CONCURRENT_JOBS == 2
ADMIT_MEMORY_MB == 800

Requests == 1..NumRequests
\* one request more than there are job slots
RaceRequests == 1..(MAX_CONCURRENT_JOBS + 1)
AllRequests == Requests \cup RaceRequests
\* the request of the runs that follow a single job
OneRequest == {1}
Kids == 1..MaxKids

\* what get_memory_usage() and psutil.disk_usage().free can return
MemoryLevels == {500, 900, 1100}
DiskLevels == {0, 5}
\* the free-disk threshold of the service (the one /health applies), in GB
DISK_MIN_GB == 1
\* seconds: the retention window of cleanup_old_files and the sleep of
\* delayed_cleanup
RETENTION_WINDOW == 3600
GRACE_PERIOD == 300
\* a wait on the subprocess that outlasts the retention window
PROCESSING_TIMEOUT_PastRetention == 2 * RETENTION_WINDOW
\* seconds: the timeout of process.communicate
PROCESSING_TIMEOUT == 600

\* the multipart upload of a request: is there a 'file' part, the extension
\* of its filename ("" when the filename is empty), its size in MB
NoUpload == [file |-> FALSE, filename |-> "", size |-> 0]
Uploads ==
    { NoUpload,
      [file |-> TRUE, filename |-> "", size |-> 10],
      [file |-> TRUE, filename |-> "notes.txt", size |-> 10],
      [file |-> TRUE, filename |-> "clip", size |-> 10],
      [file |-> TRUE, filename |-> "EMPTY.MP4", size |-> 0],
      [file |-> TRUE, filename |-> "clip.mp4", size |-> 10],
      [file |-> TRUE, filename |-> "huge.mov", size |-> 200] }

ALLOWED_EXTENSIONS == {".mp4", ".mov", ".avi", ".mkv", ".webm", ".m4v"}

\* os.path.splitext(file.filename.lower())[1] on the filenames that occur
SplitExtLower(fn) ==
    CASE fn = "notes.txt" -> ".txt"
      [] fn = "EMPTY.MP4" -> ".mp4"
      [] fn = "clip.mp4" -> ".mp4"
      [] fn = "huge.mov" -> ".mov"
      [] OTHER -> ""

\* validate_video_file: TRUE iff the file is accepted
validate_video_file(u) ==
    /\ u.filename # ""
    /\ SplitExtLower(u.filename) \in ALLOWED_EXTENSIONS

\* the text of an exception, as far as the handler looks at it: whether it
\* contains "timeout", "memory" or neither (in its first 200 characters)
Messages == {"plain", "timeout", "memory"}

\* the except block's choice of HTTP status from str(e).lower()
ErrorCode(msg) ==
    IF msg = "timeout" THEN 408
    ELSE IF msg = "memory" THEN 507
    ELSE 500

(* ------------------------------- files -------------------------------- *)
Absent == [size |-> -1, mtime |-> 0]
InPath(r) == <<"in", r>>
OutPath(r) == <<"out", r>>
\* a file that an earlier run of the service left in UPLOAD_DIR
StrayPath == <<"stray", 0>>
NoPath == <<"none", 0>>
Paths == {InPath(r) : r \in AllRequests} \cup {OutPath(r) : r \in AllRequests}
            \cup {StrayPath}

\* the clock (time.time(), in seconds) when the service starts, and the
\* step by which it advances
StartTime == RETENTION_WINDOW + GRACE_PERIOD
TickSeconds == GRACE_PERIOD
\* last-modified times of a left-over file: long ago, a little less than
\* the retention window ago, just now
StrayMtimes == {0, 2 * GRACE_PERIOD, StartTime}
OutputSizes == {0, 10, 60}

VARIABLES
    pc,                \* where each request thread is in repost_proof
    upload,            \* request.files of each request
    tmp,               \* the value a thread loaded for active_jobs +=/-= 1
    active_jobs,       \* global counter
    active_processes,  \* global dict: the job ids that have an entry
    memory_mb,         \* what get_memory_usage() returns now
    disk_free_gb,      \* free disk of UPLOAD_DIR now
    fs,                \* UPLOAD_DIR: path -> [size, mtime] or Absent
    proc,              \* state of each job's ffmpeg subprocess
    returncode,        \* its exit code
    stderr,            \* what its stderr text contains
    kids,              \* live descendants of each subprocess
    snap,              \* kill_process_tree's children snapshot
    status,            \* HTTP status of the response (0: none yet)
    outcome,           \* how the job ended
    timer,             \* delayed_cleanup thread of each job
    returned_at,       \* time.time() when each handler returned
    launches,          \* number of Popen calls made for each job
    effects,           \* resources each request has touched so far
    now,               \* time.time()
    sw_pc,             \* where the cleanup_worker thread is
    sw_cutoff,         \* cutoff_time of the current cleanup_old_files call
    sw_listing,        \* what os.listdir returned to it
    sw_todo,           \* the names of the listing not yet looked at
    sw_cur,            \* the name being looked at
    sw_result,         \* how the last cleanup_old_files call ended
    sd_pc,             \* where signal_handler is ("up": no signal yet)
    sd_size,           \* size of active_processes when its loop started
    sd_seen,           \* the entries its loop has yielded so far
    sd_cur,            \* the entry whose process tree it is killing
    health,            \* the body of the last /health response
    dl_name,           \* the name of the last /file-download request
    dl_status,         \* the HTTP status of its response
    m_pc,              \* where the media pipeline is
    m_report,          \* what ffprobe does for the input file
    m_info,            \* the profile get_video_info returned
    m_tier,            \* the processing path taken
    m_timeout,         \* the timeout (s) given to subprocess.run
    m_argv,            \* cmd, the argument vector
    m_argv2            \* cmd of a second build for the same profile

vars == <<pc, upload, tmp, active_jobs, active_processes, memory_mb,
          disk_free_gb, fs, proc, returncode, stderr, kids, snap, status,
          outcome, timer, returned_at, launches, effects, now, sw_pc,
          sw_cutoff,
          sw_listing, sw_todo, sw_cur, sw_result, sd_pc, sd_size, sd_seen,
          sd_cur, health, dl_name, dl_status, m_pc, m_report, m_info,
          m_tier, m_timeout, m_argv, m_argv2>>

sweepVars == <<sw_pc, sw_cutoff, sw_listing, sw_todo, sw_cur, sw_result>>
envVars == <<memory_mb, disk_free_gb>>
procVars == <<proc, returncode, stderr, kids, snap>>
downVars == <<sd_pc, sd_size, sd_seen, sd_cur>>
routeVars == <<health, dl_name, dl_status>>
mediaVars == <<m_pc, m_report, m_info, m_tier, m_timeout, m_argv, m_argv2>>
serviceVars == <<downVars, routeVars, mediaVars>>

Exists(p) == fs[p] # Absent

\* the /health and /file-download routes have answered nothing yet
NoHealth == [status |-> "none", memory_mb |-> 0, disk_free_gb |-> 0,
             active_jobs |-> 0]
NoName == <<>>
\* no ffprobe run, no profile
NoReport == [kind |-> "none", duration |-> 0, video |-> <<>>,
             audio |-> FALSE]
NoInfo == [duration |-> 0, width |-> 0, height |-> 0, has_audio |-> FALSE]

\* no signal has arrived and no route was called
RoutesInit ==
    /\ sd_pc = "up"
    /\ sd_size = 0
    /\ sd_seen = {}
    /\ sd_cur = 0
    /\ health = NoHealth
    /\ dl_name = NoName
    /\ dl_status = 0

\* ... and no video is being processed
ServiceInit ==
    /\ RoutesInit
    /\ m_pc = "off"
    /\ m_report = NoReport
    /\ m_info = NoInfo
    /\ m_tier = "none"
    /\ m_timeout = 0
    /\ m_argv = <<>>
    /\ m_argv2 = <<>>

\* no request has arrived, UPLOAD_DIR is empty, the sweeper sleeps
JobsInit ==
    /\ pc = [r \in AllRequests |-> "idle"]
    /\ upload = [r \in AllRequests |-> NoUpload]
    /\ tmp = [r \in AllRequests |-> 0]
    /\ active_jobs = 0
    /\ active_processes = {}
    /\ memory_mb = 500
    /\ disk_free_gb = 5
    /\ fs = [p \in Paths |-> Absent]
    /\ proc = [r \in AllRequests |-> "none"]
    /\ returncode = [r \in AllRequests |-> 0]
    /\ stderr = [r \in AllRequests |-> "plain"]
    /\ kids = [r \in AllRequests |-> {}]
    /\ snap = [r \in AllRequests |-> {}]
    /\ status = [r \in AllRequests |-> 0]
    /\ outcome = [r \in AllRequests |-> "none"]
    /\ timer = [r \in AllRequests |-> "none"]
    /\ returned_at = [r \in AllRequests |-> 0]
    /\ launches = [r \in AllRequests |-> 0]
    /\ effects = [r \in AllRequests |-> {}]
    /\ now = StartTime
    /\ sw_pc = "sleep"
    /\ sw_cutoff = 0
    /\ sw_listing = {}
    /\ sw_todo = {}
    /\ sw_cur = NoPath
    /\ sw_result = "none"

Init == ServiceInit /\ JobsInit

(* ------------------------ POST /repost-proof -------------------------- *)
\* lines 136-149: the two overload checks, on the values read
AdmissionVerdict(jobs, mem) ==
    IF jobs >= MAX_CONCURRENT_JOBS THEN "busy"
    ELSE IF mem > ADMIT_MEMORY_MB THEN "overloaded"
    ELSE "ok"

\* lines 151-161: the checks of the upload made before anything is stored
UploadVerdict(u) ==
    IF ~u.file THEN "nofile"
    ELSE IF u.filename = "" THEN "noname"
    ELSE IF ~validate_video_file(u) THEN "badext"
    ELSE "ok"

Reject(r, code, why) ==
    /\ status' = [status EXCEPT ![r] = code]
    /\ outcome' = [outcome EXCEPT ![r] = why]

\* a response chosen inside the try block: the finally block runs next
Respond(r, code, why) ==
    /\ Reject(r, code, why)
    /\ pc' = [pc EXCEPT ![r] = "dec_read"]

\* the increment placed ahead of the checks of the upload
Admission_CountsFirst(r, u, m) ==
    /\ pc[r] = "idle"
    /\ LET adm == AdmissionVerdict(active_jobs, m)
           val == UploadVerdict(u)
       IN  IF adm # "ok"
             THEN /\ Reject(r, 503, adm)
                  /\ pc' = [pc EXCEPT ![r] = "rejected"]
                  /\ UNCHANGED <<upload, active_jobs, effects>>
           ELSE IF val # "ok"
             THEN /\ Reject(r, 400, val)
                  /\ pc' = [pc EXCEPT ![r] = "rejected"]
                  /\ active_jobs' = active_jobs + 1
                  /\ effects' = [effects EXCEPT ![r] = @ \cup {"count"}]
                  /\ UNCHANGED upload
           ELSE /\ pc' = [pc EXCEPT ![r] = "inc_read"]
                /\ upload' = [upload EXCEPT ![r] = u]
                /\ UNCHANGED <<status, outcome, active_jobs, effects>>
    /\ UNCHANGED <<tmp, active_processes, envVars, fs, procVars,
                   timer, launches>>
    /\ UNCHANGED <<now, sweepVars, serviceVars, returned_at>>

\* lines 136-167: a request arrives and passes or fails the checks that
\* precede the increment; active_jobs is read once, at line 137, and m is
\* what get_memory_usage() returns at line 144
Admission(r, u, m) ==
    /\ pc[r] = "idle"
    /\ LET adm == AdmissionVerdict(active_jobs, m)
           val == UploadVerdict(u)
       IN  IF adm # "ok"
             THEN /\ Reject(r, 503, adm)
                  /\ pc' = [pc EXCEPT ![r] = "rejected"]
                  /\ UNCHANGED upload
           ELSE IF val # "ok"
             THEN /\ Reject(r, 400, val)
                  /\ pc' = [pc EXCEPT ![r] = "rejected"]
                  /\ UNCHANGED upload
           ELSE /\ pc' = [pc EXCEPT ![r] = "inc_read"]
                /\ upload' = [upload EXCEPT ![r] = u]
                /\ UNCHANGED <<status, outcome>>
    /\ UNCHANGED <<tmp, active_jobs, active_processes, envVars, fs, procVars,
                   timer, launches, effects>>
    /\ UNCHANGED <<now, sweepVars, serviceVars, returned_at>>

\* line 170, active_jobs += 1: the load of the global ...
IncRead(r) ==
    /\ pc[r] = "inc_read"
    /\ tmp' = [tmp EXCEPT ![r] = active_jobs]
    /\ pc' = [pc EXCEPT ![r] = "inc_write"]
    /\ UNCHANGED <<upload, active_jobs, active_processes, envVars, fs,
                   procVars, status, outcome, timer, launches, effects>>
    /\ UNCHANGED <<now, sweepVars, serviceVars, returned_at>>

\* ... and the store of the sum
IncWrite(r) ==
    /\ pc[r] = "inc_write"
    /\ active_jobs' = tmp[r] + 1
    /\ tmp' = [tmp EXCEPT ![r] = 0]
    /\ effects' = [effects EXCEPT ![r] = @ \cup {"count"}]
    /\ pc' = [pc EXCEPT ![r] = "save"]
    /\ UNCHANGED <<upload, active_processes, envVars, fs, procVars,
                   status, outcome, timer, launches>>
    /\ UNCHANGED <<now, sweepVars, serviceVars, returned_at>>

\* lines 176-186: video.save(input_path), then the size check
Save(r) ==
    /\ pc[r] = "save"
    /\ fs' = [fs EXCEPT ![InPath(r)] = [size |-> upload[r].size, mtime |-> now]]
    /\ effects' = [effects EXCEPT ![r] = @ \cup {"file"}]
    /\ IF upload[r].size > MAX_FILE_SIZE
         THEN Respond(r, 413, "toolarge")
         ELSE /\ pc' = [pc EXCEPT ![r] = "build"]
              /\ UNCHANGED <<status, outcome>>
    /\ upload' = [upload EXCEPT ![r] = NoUpload]
    /\ UNCHANGED <<tmp, active_jobs, active_processes, envVars,
                   procVars, timer, launches>>
    /\ UNCHANGED <<now, sweepVars, serviceVars, returned_at>>

\* line 176 raising (an I/O error): the file may have been partly written
SaveRaises(r, partial) ==
    /\ pc[r] = "save"
    /\ IF partial
         THEN /\ fs' = [fs EXCEPT ![InPath(r)] = [size |-> 0, mtime |-> now]]
              /\ effects' = [effects EXCEPT ![r] = @ \cup {"file"}]
         ELSE UNCHANGED <<fs, effects>>
    /\ Respond(r, ErrorCode("plain"), "failed")
    /\ upload' = [upload EXCEPT ![r] = NoUpload]
    /\ UNCHANGED <<tmp, active_jobs, active_processes, envVars,
                   procVars, timer, launches>>
    /\ UNCHANGED <<now, sweepVars, serviceVars, returned_at>>

\* lines 189-202 raising: build_ffmpeg_command or Popen fails, process is None
LaunchRaises(r) ==
    /\ pc[r] = "build"
    /\ Respond(r, ErrorCode("plain"), "failed")
    /\ UNCHANGED <<upload, tmp, active_jobs, active_processes, envVars, fs,
                   procVars, timer, launches, effects>>
    /\ UNCHANGED <<now, sweepVars, serviceVars, returned_at>>

\* lines 189-202: the command is built and the subprocess started
Launch(r) ==
    /\ pc[r] = "build"
    /\ proc' = [proc EXCEPT ![r] = "running"]
    /\ launches' = [launches EXCEPT ![r] = @ + 1]
    /\ effects' = [effects EXCEPT ![r] = @ \cup {"subprocess"}]
    /\ pc' = [pc EXCEPT ![r] = "register"]
    /\ UNCHANGED <<upload, tmp, active_jobs, active_processes, envVars, fs,
                   returncode, stderr, kids, snap, status, outcome, timer>>
    /\ UNCHANGED <<now, sweepVars, serviceVars, returned_at>>

\* line 204: active_processes[file_id] = process
Register(r) ==
    /\ pc[r] = "register"
    /\ active_processes' = active_processes \cup {r}
    /\ effects' = [effects EXCEPT ![r] = @ \cup {"table"}]
    /\ pc' = [pc EXCEPT ![r] = "communicate"]
    /\ UNCHANGED <<upload, tmp, active_jobs, envVars, fs, procVars, status,
                   outcome, timer, launches>>
    /\ UNCHANGED <<now, sweepVars, serviceVars, returned_at>>

(* ----------------------- the ffmpeg subprocess ------------------------ *)
\* the running subprocess writes its output file
ProcWrite(r, sz) ==
    /\ proc[r] = "running"
    /\ ~Exists(OutPath(r))
    /\ fs' = [fs EXCEPT ![OutPath(r)] = [size |-> sz, mtime |-> now]]
    /\ UNCHANGED <<pc, upload, tmp, active_jobs, active_processes, envVars,
                   procVars, status, outcome, timer, launches, effects>>
    /\ UNCHANGED <<now, sweepVars, serviceVars, returned_at>>

\* the subprocess exits by itself; it stays a zombie until it is waited for
ProcExit(r, code, msg) ==
    /\ proc[r] = "running"
    /\ code = 0 => msg = "plain"
    /\ proc' = [proc EXCEPT ![r] = "exited"]
    /\ returncode' = [returncode EXCEPT ![r] = code]
    /\ stderr' = [stderr EXCEPT ![r] = msg]
    /\ UNCHANGED <<pc, upload, tmp, active_jobs, active_processes, envVars,
                   fs, kids, snap, status, outcome, timer, launches, effects>>
    /\ UNCHANGED <<now, sweepVars, serviceVars, returned_at>>

\* the running subprocess forks a descendant
Fork(r, k) ==
    /\ proc[r] = "running"
    /\ k \notin kids[r]
    /\ kids' = [kids EXCEPT ![r] = @ \cup {k}]
    /\ UNCHANGED <<pc, upload, tmp, active_jobs, active_processes, envVars,
                   fs, proc, returncode, stderr, snap, status, outcome,
                   timer, launches, effects>>
    /\ UNCHANGED <<now, sweepVars, serviceVars, returned_at>>

\* a descendant exits by itself
KidExit(r, k) ==
    /\ k \in kids[r]
    /\ kids' = [kids EXCEPT ![r] = @ \ {k}]
    /\ UNCHANGED <<pc, upload, tmp, active_jobs, active_processes, envVars,
                   fs, proc, returncode, stderr, snap, status, outcome,
                   timer, launches, effects>>
    /\ UNCHANGED <<now, sweepVars, serviceVars, returned_at>>

(* ------------------- waiting for the subprocess ----------------------- *)
\* the check for an empty output file left out
Decide_NoEmptyCheck(code, msg, osize) ==
    IF code # 0 THEN [status |-> ErrorCode(msg), outcome |-> "failed"]
    ELSE IF osize < 0 THEN [status |-> ErrorCode("plain"), outcome |-> "failed"]
    ELSE [status |-> 200, outcome |-> "succeeded"]

\* lines 216-257 on the values read: the response of a job whose
\* subprocess exited with `code` and left an output file of size `osize`
\* (-1: no file)
Decide(code, msg, osize) ==
    IF code # 0 THEN [status |-> ErrorCode(msg), outcome |-> "failed"]
    ELSE IF osize < 0 THEN [status |-> ErrorCode("plain"), outcome |-> "failed"]
    ELSE IF osize = 0 THEN [status |-> ErrorCode("plain"), outcome |-> "failed"]
    ELSE [status |-> 200, outcome |-> "succeeded"]

\* lines 207, 216-257: communicate() returns (the subprocess has exited and
\* is reaped), then the exit code and the output file decide the response
Communicate(r) ==
    /\ pc[r] = "communicate"
    /\ proc[r] = "exited"
    /\ proc' = [proc EXCEPT ![r] = "reaped"]
    /\ LET d == Decide(returncode[r], stderr[r], fs[OutPath(r)].size)
       IN  Respond(r, d.status, d.outcome)
    /\ UNCHANGED <<upload, tmp, active_jobs, active_processes, envVars, fs,
                   returncode, stderr, kids, snap, timer, launches, effects>>
    /\ UNCHANGED <<now, sweepVars, serviceVars, returned_at>>

\* lines 207-209: the subprocess is still running when the timeout expires
TimeoutExpired(r) ==
    /\ pc[r] = "communicate"
    /\ proc[r] = "running"
    /\ pc' = [pc EXCEPT ![r] = "kill_snapshot"]
    /\ UNCHANGED <<upload, tmp, active_jobs, active_processes, envVars, fs,
                   procVars, status, outcome, timer, launches, effects>>
    /\ UNCHANGED <<now, sweepVars, serviceVars, returned_at>>

\* kill_process_tree, lines 69-70: parent.children(recursive=True) lists
\* the descendants alive now; a process that has exited has none left
Children(r) == IF proc[r] = "running" THEN kids[r] ELSE {}

KillSnapshot(r) ==
    /\ pc[r] = "kill_snapshot"
    /\ snap' = [snap EXCEPT ![r] = Children(r)]
    /\ pc' = [pc EXCEPT ![r] = "kill"]
    /\ UNCHANGED <<upload, tmp, active_jobs, active_processes, envVars, fs,
                   proc, returncode, stderr, kids, status, outcome, timer,
                   launches, effects>>
    /\ UNCHANGED <<now, sweepVars, serviceVars, returned_at>>

\* kill_process_tree's kills: the processes SIGKILL is sent to
Killed(r) == snap[r]

\* a timed-out job started again instead of failed
KillAndRaise_Retries(r) ==
    /\ pc[r] = "kill"
    /\ kids' = [kids EXCEPT ![r] = @ \ Killed(r)]
    /\ proc' = [proc EXCEPT ![r] = "reaped"]
    /\ returncode' = [returncode EXCEPT
                        ![r] = IF proc[r] = "running" THEN -9 ELSE @]
    /\ pc' = [pc EXCEPT ![r] = IF launches[r] < 2 THEN "build" ELSE "dec_read"]
    /\ Reject(r, IF launches[r] < 2 THEN 0 ELSE ErrorCode("timeout"),
              IF launches[r] < 2 THEN "none" ELSE "timedout")
    /\ UNCHANGED <<upload, tmp, active_jobs, active_processes, envVars, fs,
                   stderr, snap, timer, launches, effects>>
    /\ UNCHANGED <<now, sweepVars, serviceVars, returned_at>>

\* kill_process_tree, lines 71-79, then lines 212-214: the listed children
\* and the parent are killed, the parent is reaped, RuntimeError is raised
KillAndRaise(r) ==
    /\ pc[r] = "kill"
    /\ kids' = [kids EXCEPT ![r] = @ \ Killed(r)]
    /\ proc' = [proc EXCEPT ![r] = "reaped"]
    /\ returncode' = [returncode EXCEPT
                        ![r] = IF proc[r] = "running" THEN -9 ELSE @]
    /\ Respond(r, ErrorCode("timeout"), "timedout")
    /\ UNCHANGED <<upload, tmp, active_jobs, active_processes, envVars, fs,
                   stderr, snap, timer, launches, effects>>
    /\ UNCHANGED <<now, sweepVars, serviceVars, returned_at>>

(* ------------------------- the finally block -------------------------- *)
\* line 279, active_jobs -= 1: the load ...
DecRead(r) ==
    /\ pc[r] = "dec_read"
    /\ tmp' = [tmp EXCEPT ![r] = active_jobs]
    /\ pc' = [pc EXCEPT ![r] = "dec_write"]
    /\ UNCHANGED <<upload, active_jobs, active_processes, envVars, fs,
                   procVars, status, outcome, timer, launches, effects>>
    /\ UNCHANGED <<now, sweepVars, serviceVars, returned_at>>

\* ... and the store
DecWrite(r) ==
    /\ pc[r] = "dec_write"
    /\ active_jobs' = tmp[r] - 1
    /\ tmp' = [tmp EXCEPT ![r] = 0]
    /\ pc' = [pc EXCEPT ![r] = "cleanup"]
    /\ UNCHANGED <<upload, active_processes, envVars, fs, procVars,
                   status, outcome, timer, launches, effects>>
    /\ UNCHANGED <<now, sweepVars, serviceVars, returned_at>>

\* the delayed_cleanup thread started only after a success
SchedulesCleanup_OnSuccessOnly(r) == Exists(OutPath(r)) /\ status[r] = 200

\* line 293: is a delayed_cleanup thread started for the job
SchedulesCleanup(r) == Exists(OutPath(r))

\* the input file removed only after a success
RemovesInput_OnSuccessOnly(r) == Exists(InPath(r)) /\ status[r] = 200

\* lines 285-290: is the input file removed
RemovesInput(r) == Exists(InPath(r))

\* lines 281-303: the table entry and the input file are removed, the
\* delayed_cleanup thread is started if the output file exists; the
\* handler returns
Cleanup(r) ==
    /\ pc[r] = "cleanup"
    /\ active_processes' = active_processes \ {r}
    /\ fs' = IF RemovesInput(r) THEN [fs EXCEPT ![InPath(r)] = Absent] ELSE fs
    /\ timer' = [timer EXCEPT
                   ![r] = IF SchedulesCleanup(r) THEN "sleeping" ELSE @]
    /\ returned_at' = [returned_at EXCEPT ![r] = now]
    /\ pc' = [pc EXCEPT ![r] = "returned"]
    /\ UNCHANGED <<upload, tmp, active_jobs, envVars, procVars, status,
                   outcome, launches, effects>>
    /\ UNCHANGED <<now, sweepVars, serviceVars>>

\* lines 294-301: delayed_cleanup wakes up and removes the output file
delayed_cleanup(r) ==
    /\ timer[r] = "sleeping"
    /\ timer' = [timer EXCEPT ![r] = "done"]
    /\ fs' = [fs EXCEPT ![OutPath(r)] = Absent]
    /\ UNCHANGED <<pc, upload, tmp, active_jobs, active_processes, envVars,
                   procVars, status, outcome, launches, effects>>
    /\ UNCHANGED <<now, sweepVars, serviceVars, returned_at>>

(* ------------------------ the retention sweeper ----------------------- *)
handlerVars == <<pc, upload, tmp, active_jobs, active_processes, envVars,
                 procVars, status, outcome, timer, returned_at, launches,
                 effects, serviceVars>>

\* line 43: is the file older than the retention window, for this call
Stale(p) == fs[p].mtime < sw_cutoff

\* lines 40-41: cleanup_old_files computes the cutoff and lists UPLOAD_DIR
SweepStart ==
    /\ sw_pc = "sleep"
    /\ sw_cutoff' = now - RETENTION_WINDOW
    /\ sw_listing' = {p \in Paths : Exists(p)}
    /\ sw_todo' = {p \in Paths : Exists(p)}
    /\ sw_result' = "none"
    /\ sw_pc' = "scan"
    /\ UNCHANGED <<handlerVars, fs, now, sw_cur>>

\* line 43, os.path.isfile on the next name of the listing (listdir gives
\* the names in no particular order); False for a file that is gone
SweepIsFile(p) ==
    /\ sw_pc = "scan"
    /\ p \in sw_todo
    /\ sw_todo' = sw_todo \ {p}
    /\ IF Exists(p)
         THEN sw_cur' = p /\ sw_pc' = "stat"
         ELSE UNCHANGED <<sw_cur, sw_pc>>
    /\ UNCHANGED <<handlerVars, fs, now, sw_cutoff, sw_listing, sw_result>>

\* line 43, os.path.getmtime: it raises for a file that is gone, and the
\* except clause of line 49 ends the call; else the age decides
SweepGetMtime ==
    /\ sw_pc = "stat"
    /\ IF ~Exists(sw_cur)
         THEN /\ sw_pc' = "sleep"
              /\ sw_result' = "aborted"
              /\ sw_cur' = NoPath
         ELSE /\ sw_pc' = IF Stale(sw_cur) THEN "remove" ELSE "scan"
              /\ sw_cur' = IF Stale(sw_cur) THEN sw_cur ELSE NoPath
              /\ UNCHANGED sw_result
    /\ UNCHANGED <<handlerVars, fs, now, sw_cutoff, sw_listing, sw_todo>>

\* lines 44-48: os.remove; its failure is logged and the loop goes on
SweepRemove ==
    /\ sw_pc = "remove"
    /\ fs' = [fs EXCEPT ![sw_cur] = Absent]
    /\ sw_cur' = NoPath
    /\ sw_pc' = "scan"
    /\ UNCHANGED <<handlerVars, now, sw_cutoff, sw_listing, sw_todo,
                   sw_result>>

\* the loop of line 41 ends: the call returns and the worker sleeps
SweepDone ==
    /\ sw_pc = "scan"
    /\ sw_todo = {}
    /\ sw_pc' = "sleep"
    /\ sw_result' = "complete"
    /\ UNCHANGED <<handlerVars, fs, now, sw_cutoff, sw_listing, sw_todo,
                   sw_cur>>

\* the clock advances
Tick ==
    /\ now < StartTime + MaxTicks * TickSeconds
    /\ now' = now + TickSeconds
    /\ UNCHANGED <<handlerVars, fs, sweepVars>>

(* --------------------------- environment ------------------------------ *)
\* memory use and free disk change
EnvChange(m, d) ==
    /\ <<m, d>> # <<memory_mb, disk_free_gb>>
    /\ memory_mb' = m
    /\ disk_free_gb' = d
    /\ UNCHANGED <<pc, upload, tmp, active_jobs, active_processes, fs,
                   procVars, status, outcome, timer, launches, effects>>
    /\ UNCHANGED <<now, sweepVars, serviceVars, returned_at>>

(* --------------------------- signal_handler --------------------------- *)
\* the state of the request threads, the subprocesses aside
requestVars == <<pc, upload, tmp, active_jobs, active_processes, envVars,
                 status, outcome, timer, returned_at, launches, effects>>

\* the jobs that run beside a shutdown
ShutdownRequests == 1..MAX_CONCURRENT_JOBS

\* SIGTERM or SIGINT arrives; line 347 creates the iterator of
\* active_processes.items(), which remembers the size of the dict
SignalArrives ==
    /\ sd_pc = "up"
    /\ sd_pc' = "loop"
    /\ sd_size' = Cardinality(active_processes)
    /\ sd_seen' = {}
    /\ UNCHANGED <<requestVars, procVars, fs, now, sweepVars, sd_cur,
                   routeVars, mediaVars>>

\* line 347, the iterator's next entry.  The request threads go on running
\* meanwhile: if one of them has added or removed an entry, the iterator
\* raises RuntimeError (dictionary changed size during iteration); the for
\* statement is outside the try of lines 348-352, so the exception leaves
\* signal_handler and exit(0) is not reached.  With no entry left the loop
\* ends and line 353 exits the process.
SignalLoop ==
    /\ sd_pc = "loop"
    /\ IF Cardinality(active_processes) # sd_size
         THEN /\ sd_pc' = "raised"
              /\ UNCHANGED <<sd_seen, sd_cur>>
         ELSE IF active_processes \subseteq sd_seen
         THEN /\ sd_pc' = "exited"
              /\ UNCHANGED <<sd_seen, sd_cur>>
         ELSE \E r \in active_processes \ sd_seen :
                /\ sd_cur' = r
                /\ sd_seen' = sd_seen \cup {r}
                /\ sd_pc' = "kill"
    /\ UNCHANGED <<requestVars, procVars, fs, now, sweepVars, sd_size,
                   routeVars, mediaVars>>

\* line 349, kill_process_tree(process.pid): the children alive now and the
\* parent are killed; nothing happens for a process that is gone
SignalKillTree ==
    /\ sd_pc = "kill"
    /\ kids' = [kids EXCEPT ![sd_cur] = @ \ Children(sd_cur)]
    /\ proc' = [proc EXCEPT
                  ![sd_cur] = IF @ = "running" THEN "exited" ELSE @]
    /\ returncode' = [returncode EXCEPT
                  ![sd_cur] = IF proc[sd_cur] = "running" THEN -9 ELSE @]
    /\ sd_pc' = "loop"
    /\ UNCHANGED <<requestVars, stderr, snap, fs, now, sweepVars, sd_size,
                   sd_seen, sd_cur, routeVars, mediaVars>>

\* the service process is gone: its threads run no more
ServiceUp == sd_pc \notin {"exited", "raised"}

(* ------------------------ GET /file-download -------------------------- *)
\* str(uuid.uuid4()) of a job, lines 164-165
FileId(r) == ToString(r)

\* a requested name, as the sequence of its pieces; the names that occur
\* are a job's output, a job's input, a left-over file, a name that no file
\* has, and names with "..", "/" and "\"
NameOf(p) ==
    IF p = StrayPath THEN <<"stray.bin">>
    ELSE <<(IF p[1] = "in" THEN "in_" ELSE "out_"), FileId(p[2]), ".mp4">>

DownloadNames ==
    {NameOf(p) : p \in {InPath(1), OutPath(1), StrayPath}}
        \cup { <<"out_", "none", ".mp4">>,
               <<"..", "/", "app.py">>,
               <<"sub", "/", "out_", FileId(1), ".mp4">>,
               <<"sub", "\\", "out_", FileId(1), ".mp4">>,
               <<"out_", FileId(1), "..", "mp4">> }

\* line 309: piece in filename
Contains(name, piece) == \E i \in 1..Len(name) : name[i] = piece

\* line 312: the file of UPLOAD_DIR that os.path.join(UPLOAD_DIR, filename)
\* names, NoPath when the name is the name of none of the files
FilePath(name) ==
    IF \E p \in Paths : NameOf(p) = name
    THEN CHOOSE p \in Paths : NameOf(p) = name
    ELSE NoPath

\* lines 309-326: the status download_file answers with; sent says whether
\* send_file succeeds
DownloadStatus(name, sent) ==
    IF Contains(name, "..") \/ Contains(name, "/") \/ Contains(name, "\\")
    THEN 400
    ELSE IF FilePath(name) = NoPath \/ ~Exists(FilePath(name)) THEN 404
    ELSE IF sent THEN 200
    ELSE 500

download_file(name, sent) ==
    /\ dl_name' = name
    /\ dl_status' = DownloadStatus(name, sent)
    /\ UNCHANGED <<requestVars, procVars, fs, now, sweepVars, downVars,
                   health, mediaVars>>

(* ---------------------------- GET /health ----------------------------- *)
\* line 119: the memory threshold of /health, in MB
HEALTH_MEMORY_MB == 1000

\* lines 110-128: the status field, each test overriding the one before
HealthStatus(jobs, mem, disk) ==
    LET s1 == IF mem > HEALTH_MEMORY_MB THEN "warning" ELSE "healthy"
        s2 == IF disk < DISK_MIN_GB THEN "warning" ELSE s1
    IN  IF jobs >= MAX_CONCURRENT_JOBS THEN "busy" ELSE s2

\* lines 104-130: the body of the response
health_check ==
    /\ health' = [status |-> HealthStatus(active_jobs, memory_mb,
                                          disk_free_gb),
                  memory_mb |-> memory_mb,
                  disk_free_gb |-> disk_free_gb,
                  active_jobs |-> active_jobs]
    /\ UNCHANGED <<requestVars, procVars, fs, now, sweepVars, downVars,
                   dl_name, dl_status, mediaVars>>

(* ------------------ src/utils/ffmpeg_mods.py: probing ------------------ *)
\* what the report of ffprobe can say: the duration of the container in
\* seconds (NoDuration: the format has no duration key), the size of the
\* first video stream (<<>>: there is no video stream), whether there is an
\* audio stream
NoDuration == -1
Durations == {NoDuration, 0, 30, 60, 180, 181, 200}
FrameSizes == {<<1280, 720>>, <<1920, 1080>>, <<1921, 1080>>, <<3840, 2160>>}

\* what running ffprobe can give: exit code 0 and a report, a non-zero exit
\* code, output that json.loads or the key lookups reject, a timeout after
\* 30 s, or ffprobe cannot be started
ProbeFailures == {"nonzero", "malformed", "timeout", "notstarted"}
Reports ==
    [kind : {"ok"}, duration : Durations, video : FrameSizes \cup {<<>>},
     audio : BOOLEAN]
    \cup [kind : ProbeFailures, duration : {0}, video : {<<>>},
          audio : {FALSE}]

\* line 36: the profile returned when the probe has failed
DefaultProfile ==
    [duration |-> 30, width |-> 1920, height |-> 1080, has_audio |-> TRUE]

\* lines 10-36.  Exit code 0: the profile is read from the report, a missing
\* duration being 0 (line 23) and the size of a missing video stream
\* 1920x1080 (lines 24-25).  A non-zero exit code skips the if of line 17
\* and an exception is caught at line 33: both end at line 36.
get_video_info(rep) ==
    IF rep.kind = "ok"
    THEN [duration |-> IF rep.duration = NoDuration THEN 0 ELSE rep.duration,
          width |-> IF rep.video = <<>> THEN 1920 ELSE rep.video[1],
          height |-> IF rep.video = <<>> THEN 1080 ELSE rep.video[2],
          has_audio |-> rep.audio]
    ELSE DefaultProfile

(* -------------------------- the tier rule ----------------------------- *)
\* the test of the duration with the boundary value included
is_long_video_Inclusive(duration) == duration >= 180

\* line 64
is_long_video(duration) == duration > 180

\* line 65
is_large_video(width, height) == width * height > 1920 * 1080

\* lines 68-70: process_video_conservative is called for a long or large
\* video, the rest of process_video_comprehensive_stable runs otherwise
Tier(info) ==
    IF is_long_video(info.duration) \/ is_large_video(info.width, info.height)
    THEN "Conservative"
    ELSE "Standard"

(* ---------------------------- the timeouts ---------------------------- *)
\* line 321: timeout of subprocess.run in process_video_conservative
CONSERVATIVE_TIMEOUT == 300

\* line 221: timeout of subprocess.run in process_video_comprehensive_stable
StandardTimeout(info) == IF is_long_video(info.duration) THEN 480 ELSE 240

TimeoutOf(tier, info) ==
    IF tier = "Conservative" THEN CONSERVATIVE_TIMEOUT
    ELSE StandardTimeout(info)

(* ----------------------- the argument vectors ------------------------- *)
\* the random draws of one build that are told apart: crop_x (randint),
\* pitch_shift (uniform(-10, 10)) and crf (randint); the other sampled
\* values are written into their filter or argument and not told apart
Draws == [crop_x : {2, 3}, pitch_shift : {-7, 2, 7}, crf : {23, 25}]

\* an element of cmd: its Python type, its fixed text, the sampled numbers
\* formatted into it, and for a filter graph the filters joined by ","
Arg(text) == [type |-> "str", text |-> text, value |-> <<>>, graph |-> <<>>]
Sampled(text, nums) ==
    [type |-> "str", text |-> text, value |-> nums, graph |-> <<>>]
Graph(filters) ==
    [type |-> "str", text |-> "graph", value |-> <<>>, graph |-> filters]

\* one filter of a graph: name=..., the option that tells two filters of
\* the same name apart, and the sampled numbers
Filter(name, key, param) == [name |-> name, key |-> key, param |-> param]

\* lines 38-51: a drawtext filter at one of five positions
create_invisible_watermark(width, height, position) ==
    Filter("drawtext", "ID",
           CASE position = "topleft" -> <<10, 10>>
             [] position = "topright" -> <<width - 60, 10>>
             [] position = "bottomleft" -> <<10, height - 30>>
             [] position = "bottomright" -> <<width - 60, height - 30>>
             [] position = "center" ->
                    <<(width \div 2) - 25, (height \div 2) - 10>>
             [] OTHER -> <<10, 10>>)

\* the rotation left out for one value of a draw
StandardVideoFilters_OptionalRotate(info, d, timestamp) ==
    << Filter("crop", "", <<d.crop_x, d.crop_x \div 2>>),
       Filter("pad", "", <<>>) >>
    \o (IF d.crop_x = 3 THEN <<>> ELSE <<Filter("rotate", "", <<>>)>>)
    \o << Filter("eq", "brightness", <<>>),
          Filter("hue", "", <<>>),
          Filter("eq", "gamma_r", <<>>),
          Filter("noise", "", <<>>),
          Filter("unsharp", "", <<>>),
          create_invisible_watermark(info.width, info.height, "topleft"),
          create_invisible_watermark(info.width, info.height, "bottomright"),
          create_invisible_watermark(info.width, info.height, "center"),
          Filter("drawtext", "T", <<timestamp>>) >>

\* the padding placed ahead of the crop for one value of a draw
StandardVideoFilters_PadFirst(info, d, timestamp) ==
    (IF d.crop_x = 3
     THEN << Filter("pad", "", <<>>),
             Filter("crop", "", <<d.crop_x, d.crop_x \div 2>>) >>
     ELSE << Filter("crop", "", <<d.crop_x, d.crop_x \div 2>>),
             Filter("pad", "", <<>>) >>)
    \o << Filter("rotate", "", <<>>),
          Filter("eq", "brightness", <<>>),
          Filter("hue", "", <<>>),
          Filter("eq", "gamma_r", <<>>),
          Filter("noise", "", <<>>),
          Filter("unsharp", "", <<>>),
          create_invisible_watermark(info.width, info.height, "topleft"),
          create_invisible_watermark(info.width, info.height, "bottomright"),
          create_invisible_watermark(info.width, info.height, "center"),
          Filter("drawtext", "T", <<timestamp>>) >>

\* lines 78-124: video_filters of process_video_comprehensive_stable
StandardVideoFilters(info, d, timestamp) ==
    << Filter("crop", "", <<d.crop_x, d.crop_x \div 2>>),
       Filter("pad", "", <<>>),
       Filter("rotate", "", <<>>),
       Filter("eq", "brightness", <<>>),
       Filter("hue", "", <<>>),
       Filter("eq", "gamma_r", <<>>),
       Filter("noise", "", <<>>),
       Filter("unsharp", "", <<>>),
       create_invisible_watermark(info.width, info.height, "topleft"),
       create_invisible_watermark(info.width, info.height, "bottomright"),
       create_invisible_watermark(info.width, info.height, "center"),
       Filter("drawtext", "T", <<timestamp>>) >>

Abs(x) == IF x < 0 THEN -x ELSE x

\* lines 131-154: audio_filters; line 139 appends "asetrate=...,aresample=
\* 44100", two filters of the graph, when abs(pitch_shift) > 5
StandardAudioFilters(d) ==
    << Filter("atempo", "", <<>>) >>
    \o (IF Abs(d.pitch_shift) > 5
        THEN << Filter("asetrate", "", <<d.pitch_shift>>),
                Filter("aresample", "", <<>>) >>
        ELSE <<>>)
    \o << Filter("volume", "", <<>>),
          Filter("equalizer", "200", <<>>),
          Filter("equalizer", "5000", <<>>),
          Filter("highpass", "", <<>>),
          Filter("lowpass", "", <<>>) >>

\* line 214 and line 314: cmd = [str(arg) for arg in cmd]
Stringify(cmd) == [i \in DOMAIN cmd |-> [cmd[i] EXCEPT !.type = "str"]]

\* lines 75-214: cmd of process_video_comprehensive_stable
StandardArgv(info, d, timestamp) ==
    Stringify(
       << Arg("ffmpeg"), Arg("-y"), Arg("-i"), Arg("input_path"),
          Arg("-vf"), Graph(StandardVideoFilters(info, d, timestamp)) >>
       \o (IF info.has_audio
           THEN << Arg("-af"), Graph(StandardAudioFilters(d)),
                   Arg("-c:a"), Arg("aac"), Arg("-b:a"), Arg("bitrate") >>
           ELSE << Arg("-an") >>)
       \o << Arg("-c:v"), Arg("libx264"),
             Arg("-crf"), Sampled("crf", <<d.crf>>),
             Arg("-preset"), Arg("preset"),
             Arg("-profile:v"), Arg("profile"),
             Arg("-pix_fmt"), Arg("yuv420p"),
             Arg("-g"), Arg("gop_size"),
             Arg("-bf"), Arg("b_frames"),
             Arg("-refs"), Arg("ref_frames"),
             Arg("-r"), Arg("target_fps"),
             Arg("-colorspace"), Arg("colorspace"),
             Arg("-color_range"), Arg("tv"),
             Arg("-map_metadata"), Arg("-1"),
             Arg("-metadata"), Arg("title"),
             Arg("-metadata"), Arg("comment"),
             Arg("-metadata"), Sampled("description", <<timestamp>>),
             Arg("-metadata"), Arg("encoder"),
             Arg("output_path") >>)

\* lines 254-273: video_filters of process_video_conservative
ConservativeVideoFilters(info, d) ==
    << Filter("crop", "", <<d.crop_x, d.crop_x \div 2>>),
       Filter("eq", "brightness", <<>>),
       Filter("noise", "", <<>>),
       create_invisible_watermark(info.width, info.height, "center") >>

\* lines 279-284
ConservativeAudioFilters(d) ==
    << Filter("atempo", "", <<>>), Filter("volume", "", <<>>) >>

\* lines 251-314: cmd of process_video_conservative
ConservativeArgv(info, d, timestamp) ==
    Stringify(
       << Arg("ffmpeg"), Arg("-y"), Arg("-i"), Arg("input_path"),
          Arg("-vf"), Graph(ConservativeVideoFilters(info, d)) >>
       \o (IF info.has_audio
           THEN << Arg("-af"), Graph(ConservativeAudioFilters(d)),
                   Arg("-c:a"), Arg("aac"), Arg("-b:a"), Arg("128k") >>
           ELSE << Arg("-an") >>)
       \o << Arg("-c:v"), Arg("libx264"),
             Arg("-crf"), Sampled("crf", <<d.crf>>),
             Arg("-preset"), Arg("fast"),
             Arg("-profile:v"), Arg("main"),
             Arg("-pix_fmt"), Arg("yuv420p"),
             Arg("-g"), Arg("30"),
             Arg("-bf"), Arg("1"),
             Arg("-refs"), Arg("2"),
             Arg("-map_metadata"), Arg("-1"),
             Arg("-metadata"), Arg("title"),
             Arg("-metadata"), Sampled("encoder", <<timestamp>>),
             Arg("output_path") >>)

ArgvOf(tier, info, d, timestamp) ==
    IF tier = "Conservative" THEN ConservativeArgv(info, d, timestamp)
    ELSE StandardArgv(info, d, timestamp)

(* ------------------- the steps of processing a video ------------------ *)
\* line 57: info = get_video_info(input_path)
Probe ==
    /\ m_pc = "probe"
    /\ m_info' = get_video_info(m_report)
    /\ m_pc' = "select"
    /\ UNCHANGED <<requestVars, procVars, fs, now, sweepVars, downVars,
                   routeVars, m_report, m_tier, m_timeout, m_argv, m_argv2>>

\* lines 64-70: the path taken
SelectTier ==
    /\ m_pc = "select"
    /\ m_tier' = Tier(m_info)
    /\ m_pc' = "build"
    /\ UNCHANGED <<requestVars, procVars, fs, now, sweepVars, downVars,
                   routeVars, m_report, m_info, m_timeout, m_argv, m_argv2>>

\* cmd is built with the draws d and handed to subprocess.run with the
\* timeout of the path (lines 75-229, lines 251-323)
Build(d) ==
    /\ m_pc = "build"
    /\ m_argv' = ArgvOf(m_tier, m_info, d, now)
    /\ m_timeout' = TimeoutOf(m_tier, m_info)
    /\ m_pc' = "run"
    /\ UNCHANGED <<requestVars, procVars, fs, now, sweepVars, downVars,
                   routeVars, m_report, m_info, m_tier, m_argv2>>

\* cmd is built once more for the same profile, with the draws d
Rebuild(d) ==
    /\ m_pc = "run"
    /\ m_argv2' = ArgvOf(m_tier, m_info, d, now)
    /\ m_pc' = "rebuilt"
    /\ UNCHANGED <<requestVars, procVars, fs, now, sweepVars, downVars,
                   routeVars, m_report, m_info, m_tier, m_timeout, m_argv>>

(* --------------------------- specification ---------------------------- *)
Handler(r) ==
    \/ \E u \in Uploads, m \in MemoryLevels : Admission(r, u, m)
    \/ IncRead(r)
    \/ IncWrite(r)
    \/ Save(r)
    \/ \E partial \in BOOLEAN : SaveRaises(r, partial)
    \/ LaunchRaises(r)
    \/ Launch(r)
    \/ Register(r)
    \/ Communicate(r)
    \/ TimeoutExpired(r)
    \/ KillSnapshot(r)
    \/ KillAndRaise(r)
    \/ DecRead(r)
    \/ DecWrite(r)
    \/ Cleanup(r)

Subprocess(r) ==
    \/ \E sz \in OutputSizes : ProcWrite(r, sz)
    \/ \E code \in {0, 1}, msg \in Messages : ProcExit(r, code, msg)

Next ==
    \/ \E r \in Requests : Handler(r)
    \/ \E r \in Requests : Subprocess(r)
    \/ \E r \in Requests : delayed_cleanup(r)

Spec == Init /\ [][Next]_vars

(* Runs with one request more than there are job slots, every upload valid
   and every subprocess succeeding: the interleavings of the counter. *)
GoodUpload == [file |-> TRUE, filename |-> "clip.mp4", size |-> 10]

PlainJob(r) ==
    \/ Admission(r, GoodUpload, 500)
    \/ IncRead(r)
    \/ IncWrite(r)
    \/ Save(r)
    \/ Launch(r)
    \/ Register(r)
    \/ ProcWrite(r, 10)
    \/ ProcExit(r, 0, "plain")
    \/ Communicate(r)
    \/ DecRead(r)
    \/ DecWrite(r)
    \/ Cleanup(r)
    \/ delayed_cleanup(r)

RaceNext == \E r \in RaceRequests : PlainJob(r)

RaceSpec == Init /\ [][RaceNext]_vars

(* Runs of the admission checks alone, against the memory and the disk of
   the host as they change. *)
AdmitNext ==
    \/ \E r \in AllRequests : Admission(r, GoodUpload, memory_mb)
    \/ \E r \in AllRequests : IncRead(r)
    \/ \E r \in AllRequests : IncWrite(r)
    \/ \E m \in MemoryLevels, d \in DiskLevels : EnvChange(m, d)

AdmitSpec == Init /\ [][AdmitNext]_vars

(* Runs of the service in which every delayed_cleanup thread that was
   started gets to run: a sleeping thread wakes up after its 300 s. *)
LiveSpec ==
    /\ Init
    /\ [][Next]_vars
    /\ \A r \in Requests : WF_vars(delayed_cleanup(r))

(* Runs of the retention sweeper beside one job, in an upload directory
   that may hold a file left by an earlier run of the service. *)
SweepInit ==
    \E stray \in {Absent} \cup [size : {10}, mtime : StrayMtimes] :
        /\ ServiceInit
        /\ pc = [r \in AllRequests |-> "idle"]
        /\ upload = [r \in AllRequests |-> NoUpload]
        /\ tmp = [r \in AllRequests |-> 0]
        /\ active_jobs = 0
        /\ active_processes = {}
        /\ memory_mb = 500
        /\ disk_free_gb = 5
        /\ fs = [p \in Paths |-> IF p = StrayPath THEN stray ELSE Absent]
        /\ proc = [r \in AllRequests |-> "none"]
        /\ returncode = [r \in AllRequests |-> 0]
        /\ stderr = [r \in AllRequests |-> "plain"]
        /\ kids = [r \in AllRequests |-> {}]
        /\ snap = [r \in AllRequests |-> {}]
        /\ status = [r \in AllRequests |-> 0]
        /\ outcome = [r \in AllRequests |-> "none"]
        /\ timer = [r \in AllRequests |-> "none"]
        /\ returned_at = [r \in AllRequests |-> 0]
        /\ launches = [r \in AllRequests |-> 0]
        /\ effects = [r \in AllRequests |-> {}]
        /\ now = StartTime
        /\ sw_pc = "sleep"
        /\ sw_cutoff = 0
        /\ sw_listing = {}
        /\ sw_todo = {}
        /\ sw_cur = NoPath
        /\ sw_result = "none"

SweepNext ==
    \/ \E r \in OneRequest : PlainJob(r)
    \/ SweepStart
    \/ \E p \in Paths : SweepIsFile(p)
    \/ SweepGetMtime
    \/ SweepRemove
    \/ SweepDone
    \/ Tick

SweepSpec == SweepInit /\ [][SweepNext]_vars

(* Runs in which a termination signal arrives while jobs are in flight. *)
ShutdownNext ==
    \/ ServiceUp /\ \E r \in ShutdownRequests : PlainJob(r)
    \/ ServiceUp /\ \E r \in ShutdownRequests, k \in Kids : Fork(r, k)
    \/ \E r \in ShutdownRequests, k \in Kids : KidExit(r, k)
    \/ SignalArrives
    \/ SignalLoop
    \/ SignalKillTree

ShutdownSpec == Init /\ [][ShutdownNext]_vars

(* Runs in which files are requested for download beside one job. *)
DownloadNext ==
    \/ \E r \in OneRequest : PlainJob(r)
    \/ \E name \in DownloadNames, sent \in BOOLEAN : download_file(name, sent)

DownloadSpec == Init /\ [][DownloadNext]_vars

(* Runs in which /health is asked while submissions arrive and memory and
   free disk change. *)
HealthNext ==
    \/ AdmitNext
    \/ health_check

HealthSpec == Init /\ [][HealthNext]_vars

(* Runs of the media pipeline on one input file, for every report ffprobe
   can give and every pair of draws. *)
MediaInit ==
    /\ JobsInit
    /\ RoutesInit
    /\ m_pc = "probe"
    /\ m_report \in Reports
    /\ m_info = NoInfo
    /\ m_tier = "none"
    /\ m_timeout = 0
    /\ m_argv = <<>>
    /\ m_argv2 = <<>>

MediaNext ==
    \/ Probe
    \/ SelectTier
    \/ \E d \in Draws : Build(d)
    \/ \E d \in Draws : Rebuild(d)

MediaSpec == MediaInit /\ [][MediaNext]_vars

(* Fair runs: a handler thread that can take a step eventually takes one.
   Each request is served by a thread of its own (app.run, line 359), the
   wait of line 207 ends when the subprocess exits or when the timeout
   expires, and no other step of the handler blocks. *)
FairSpec == Init /\ [][Next]_vars /\ \A r \in Requests : WF_vars(Handler(r))

RaceLiveSpec ==
    Init /\ [][RaceNext]_vars /\ \A r \in RaceRequests : WF_vars(PlainJob(r))

(* Timed runs of one job beside the retention sweeper.  The steps of the
   handler take no time, except the wait of line 207: the clock advances
   while no request is being handled, or while the handler waits for a
   running subprocess and the timeout has not expired.  The subprocess was
   started when the upload was saved, so the wait began at the input file's
   modification time. *)
WaitDeadline(r) == fs[InPath(r)].mtime + PROCESSING_TIMEOUT

Waiting(r) == pc[r] = "communicate" /\ proc[r] = "running"

TimeMayPass ==
    \A r \in OneRequest :
        \/ pc[r] \in {"idle", "rejected", "returned"}
        \/ Waiting(r) /\ now + TickSeconds <= WaitDeadline(r)

TimedTick ==
    /\ now < StartTime + MaxTimedTicks * TickSeconds
    /\ TimeMayPass
    /\ now' = now + TickSeconds
    /\ UNCHANGED <<handlerVars, fs, sweepVars>>

\* line 295 returning: time.sleep(300) of the thread started as the
\* handler returned
WakeTime_NoSleep(r) == returned_at[r]
WakeTime(r) == returned_at[r] + GRACE_PERIOD

\* lines 294-301, with the duration of the sleep
TimedDelayedCleanup(r) == now >= WakeTime(r) /\ delayed_cleanup(r)

\* lines 207-208: TimeoutExpired is raised when the timeout has run out
TimedTimeout(r) == now >= WaitDeadline(r) /\ TimeoutExpired(r)

TimedJob(r) ==
    \/ Admission(r, GoodUpload, 500)
    \/ IncRead(r)
    \/ IncWrite(r)
    \/ Save(r)
    \/ Launch(r)
    \/ Register(r)
    \/ \E sz \in OutputSizes : ProcWrite(r, sz)
    \/ \E code \in {0, 1} : ProcExit(r, code, "plain")
    \/ Communicate(r)
    \/ TimedTimeout(r)
    \/ KillSnapshot(r)
    \/ KillAndRaise(r)
    \/ DecRead(r)
    \/ DecWrite(r)
    \/ Cleanup(r)
    \/ TimedDelayedCleanup(r)

TimedNext ==
    \/ \E r \in OneRequest : TimedJob(r)
    \/ SweepStart
    \/ \E p \in Paths : SweepIsFile(p)
    \/ SweepGetMtime
    \/ SweepRemove
    \/ SweepDone
    \/ TimedTick

TimedSpec == Init /\ [][TimedNext]_vars

(* Runs of a single job whose subprocess forks descendants. *)
TreeNext ==
    \E r \in OneRequest :
        \/ Handler(r)
        \/ Subprocess(r)
        \/ \E k \in Kids : Fork(r, k)
        \/ \E k \in Kids : KidExit(r, k)
        \/ delayed_cleanup(r)

TreeSpec == Init /\ [][TreeNext]_vars

(* ------------------------------ claims -------------------------------- *)
\* the requests that were admitted and have not yet undone their increment
InFlight == {r \in AllRequests : pc[r] \in {"save", "build", "register",
                 "communicate", "kill_snapshot", "kill", "dec_read"}}

\* in the finally block or past it
InFinally(r) == pc[r] \in {"dec_read", "dec_write", "cleanup"}
Returned(r) == pc[r] = "returned"

\* C1: under any interleaving of concurrent requests the number of admitted
\* jobs in flight never exceeds MAX_CONCURRENT_JOBS.
C1_InFlightWithinCeiling == Cardinality(InFlight) <= MAX_CONCURRENT_JOBS

NoResourceTouched ==
    UNCHANGED <<fs, active_jobs, active_processes, proc, launches>>

C4_AdmissionRejectsOnAnyCondition ==
    [][\A r \in AllRequests :
          (pc[r] = "idle" /\ pc'[r] # "idle") =>
             (status'[r] = 503 <=>
                 \/ active_jobs >= MAX_CONCURRENT_JOBS
                 \/ memory_mb > ADMIT_MEMORY_MB
                 \/ disk_free_gb < DISK_MIN_GB)]_vars

\* C5: when the subprocess is still running at the timeout, it and all its
\* descendants are killed and it is reaped before the cleanup runs, and the
\* job is answered 408 and never succeeds.
C5_TimeoutKillsTree ==
    \A r \in AllRequests :
        outcome[r] = "timedout" =>
            /\ proc[r] = "reaped"
            /\ kids[r] = {}
            /\ status[r] = 408

\* C6: when the subprocess exits before the timeout, a non-zero exit code
\* fails the job, exit code zero with a missing or empty output file fails
\* the job, and the job succeeds iff the exit code is zero and the output
\* file exists with a size above zero.
C6_OutcomeAfterExit ==
    \A r \in AllRequests :
        (InFinally(r) /\ launches[r] > 0 /\ outcome[r] # "timedout") =>
            LET size == fs[OutPath(r)].size
            IN  /\ returncode[r] # 0 => outcome[r] = "failed"
                /\ (returncode[r] = 0 /\ size <= 0) => outcome[r] = "failed"
                /\ outcome[r] = "succeeded" <=> (returncode[r] = 0 /\ size > 0)
                /\ status[r] = 200 <=> outcome[r] = "succeeded"

\* C6 witness: a job whose subprocess exited with code zero and left an
\* empty output file has failed.
C6_Witness ==
    \E r \in AllRequests :
        /\ InFinally(r)
        /\ returncode[r] = 0
        /\ fs[OutPath(r)].size = 0
        /\ outcome[r] = "failed"

\* C7: the response is 408 iff the subprocess exceeded its timeout, and a
\* job that failed by a non-zero exit or a missing or empty output is
\* answered 500 whatever its stderr text was.
C7_ClassificationStable ==
    \A r \in AllRequests :
        /\ status[r] = 408 <=> outcome[r] = "timedout"
        /\ (outcome[r] = "failed" /\ launches[r] > 0) => status[r] = 500

\* the state of a job in the terms of the job state machine
JobState(r) ==
    IF pc[r] \in {"idle", "rejected"} THEN "None"
    ELSE IF pc[r] \in {"inc_read", "inc_write", "save", "build"} THEN "Admitted"
    ELSE IF pc[r] \in {"register", "communicate", "kill_snapshot", "kill"}
      THEN "Running"
    ELSE IF outcome[r] = "succeeded" THEN "Succeeded"
    ELSE IF outcome[r] = "timedout" THEN "TimedOut"
    ELSE "Failed"

Terminal == {"Succeeded", "Failed", "TimedOut"}

\* a step of the job state machine as the claim gives it
StepAsStated(a, b) ==
    \/ a = b
    \/ a = "None" /\ b = "Admitted"
    \/ a = "Admitted" /\ b = "Running"
    \/ a = "Running" /\ b \in Terminal

\* C8 (as amended): a job moves Admitted -> Running -> one of Succeeded,
\* Failed, TimedOut, or Admitted -> Failed when it fails before its
\* subprocess is launched (oversize upload, an exception while saving,
\* building the command or starting the subprocess); a terminal state is
\* never left, it is entered at the start of the one finally block, and the
\* subprocess is launched at most once.
C8_JobStateMachine ==
    [][\A r \in AllRequests :
          LET a == JobState(r)
              b == JobState(r)'
          IN  /\ StepAsStated(a, b) \/ (a = "Admitted" /\ b = "Failed")
              /\ (a \notin Terminal /\ b \in Terminal) => pc'[r] = "dec_read"
              /\ b = "Succeeded" => a \in {"Running", "Succeeded"}
              /\ b = "TimedOut" => a \in {"Running", "TimedOut"}
              /\ launches'[r] <= 1]_vars

\* C8 witness: a job has failed without ever having a subprocess and has
\* gone through the finally block.
C8_Witness ==
    \E r \in AllRequests :
        /\ JobState(r) = "Failed"
        /\ launches[r] = 0
        /\ Returned(r)

\* C8 as stated: a terminal state is reached only from Running.
C8_Original ==
    [][\A r \in AllRequests : StepAsStated(JobState(r), JobState(r)')]_vars

C10_SweepRemovesEveryStaleFile ==
    (sw_pc = "sleep" /\ sw_result # "none") =>
        \A p \in sw_listing : Exists(p) => ~Stale(p)

\* C11: when signal_handler has run and the service process exits, no
\* subprocess that a job launched, and no descendant of one, is alive,
\* registered in active_processes or not.
C11_ShutdownKillsEverySubprocess ==
    sd_pc = "exited" =>
        \A r \in AllRequests : proc[r] # "running" /\ kids[r] = {}

\* the generated-output naming pattern, out_<uuid>.mp4
IsOutputName(name) ==
    /\ Len(name) = 3
    /\ name[1] = "out_"
    /\ name[2] \in {FileId(r) : r \in AllRequests}
    /\ name[3] = ".mp4"

\* C12: a download is served only for a name of the form out_<uuid>.mp4;
\* in particular the input file of a job is never served.
C12_DownloadServesOnlyOutputs ==
    dl_status = 200 => IsOutputName(dl_name)

\* C13: /health reports a status other than healthy exactly when a
\* submission made with the job count and the memory usage it reports
\* would be answered 503.
C13_HealthMatchesAdmission ==
    health.status # "none" =>
        (health.status # "healthy"
            <=> AdmissionVerdict(health.active_jobs, health.memory_mb) # "ok")

\* the tier has been selected
TierSelected == m_pc \in {"build", "run", "rebuilt"}

\* C14: the path taken depends on the duration, the width and the height of
\* the profile only: it is the Conservative one if and only if the
\* duration is above 180 s or the frame has more than 1920*1080 pixels, and
\* the Standard one otherwise.
C14_TierRule ==
    TierSelected =>
        /\ m_tier \in {"Conservative", "Standard"}
        /\ m_tier = "Conservative" <=>
              \/ m_info.duration > 180
              \/ m_info.width * m_info.height > 2073600

\* C14 witness: the boundary profile, 180 s at exactly 1920x1080, has taken
\* the Standard path.
C14_Witness ==
    /\ TierSelected
    /\ m_info.duration = 180
    /\ m_info.width = 1920
    /\ m_info.height = 1080
    /\ m_tier = "Standard"

\* C15: the timeout given to the subprocess of a Conservative job is
\* strictly shorter than the timeout given to the subprocess of any
\* Standard job.
C15_ConservativeTimeoutShorter ==
    (m_pc \in {"run", "rebuilt"} /\ m_tier = "Conservative") =>
        \A rep \in Reports :
            Tier(get_video_info(rep)) = "Standard" =>
                m_timeout < TimeoutOf("Standard", get_video_info(rep))

\* the filter graph that follows the option opt in cmd, <<>> if there is
\* none, and the filters of a graph without their sampled values
GraphAfter(cmd, opt) ==
    IF \E i \in 1..(Len(cmd) - 1) : cmd[i].text = opt
    THEN cmd[(CHOOSE i \in 1..(Len(cmd) - 1) : cmd[i].text = opt) + 1].graph
    ELSE <<>>
FilterNames(graph) == [i \in DOMAIN graph |-> <<graph[i].name, graph[i].key>>]
IsPitchFilter(f) == f[1] \in {"asetrate", "aresample"}
IsOtherFilter(f) == ~IsPitchFilter(f)
OnlyStrings(cmd) == \A i \in DOMAIN cmd : cmd[i].type = "str"
TwiceBuilt == m_pc = "rebuilt"

\* C16 (as amended): cmd is non-empty and holds strings only, and two
\* builds for the same profile have the same number of arguments, the same
\* sequence of video filters and the same sequence of audio filters apart
\* from the resample-based pitch shift (asetrate, aresample), which a
\* build has or has not depending on its draw of pitch_shift.
C16_ArgvShape ==
    TwiceBuilt =>
        /\ Len(m_argv) > 0
        /\ OnlyStrings(m_argv) /\ OnlyStrings(m_argv2)
        /\ Len(m_argv) = Len(m_argv2)
        /\ FilterNames(GraphAfter(m_argv, "-vf"))
             = FilterNames(GraphAfter(m_argv2, "-vf"))
        /\ SelectSeq(FilterNames(GraphAfter(m_argv, "-af")), IsOtherFilter)
             = SelectSeq(FilterNames(GraphAfter(m_argv2, "-af")),
                         IsOtherFilter)

\* C16 witness: two builds for a Standard profile with audio, one with the
\* pitch shift and one without it.
C16_Witness ==
    /\ TwiceBuilt
    /\ m_tier = "Standard"
    /\ m_info.has_audio
    /\ Len(GraphAfter(m_argv, "-af")) # Len(GraphAfter(m_argv2, "-af"))

\* C16 as stated: the two builds have the same sequence of filters.
C16_Original ==
    TwiceBuilt =>
        /\ Len(m_argv) > 0
        /\ OnlyStrings(m_argv) /\ OnlyStrings(m_argv2)
        /\ Len(m_argv) = Len(m_argv2)
        /\ Len(GraphAfter(m_argv, "-vf")) = Len(GraphAfter(m_argv2, "-vf"))
        /\ Len(GraphAfter(m_argv, "-af")) = Len(GraphAfter(m_argv2, "-af"))
        /\ FilterNames(GraphAfter(m_argv, "-vf"))
             = FilterNames(GraphAfter(m_argv2, "-vf"))
        /\ FilterNames(GraphAfter(m_argv, "-af"))
             = FilterNames(GraphAfter(m_argv2, "-af"))

\* C17: when ffprobe fails, exits with a non-zero code, gives malformed
\* output or times out, or when its report has no video stream,
\* get_video_info returns the default profile.
C17_ProbeFallsBackToDefault ==
    (m_pc # "probe" /\ (m_report.kind # "ok" \/ m_report.video = <<>>)) =>
        m_info = DefaultProfile

\* C18: every entry of active_processes is the entry of a subprocess that
\* is running or being killed: none is the entry of a subprocess that has
\* exited and been reaped.
C18_TableEntriesAlive ==
    \A r \in active_processes : proc[r] # "reaped"

\* the place of a video filter in the stated order: crop, pad, rotate, eq,
\* hue, noise, unsharp, the drawtext marks, the timestamp mark
StatedRank(f) ==
    CASE f.name = "crop" -> 1
      [] f.name = "pad" -> 2
      [] f.name = "rotate" -> 3
      [] f.name = "eq" -> 4
      [] f.name = "hue" -> 5
      [] f.name = "noise" -> 6
      [] f.name = "unsharp" -> 7
      [] f.name = "drawtext" /\ f.key = "ID" -> 8
      [] f.name = "drawtext" /\ f.key = "T" -> 9
      [] OTHER -> 0

\* the same with the eq filter of the per-channel gamma placed after hue
BuiltRank(f) ==
    IF f.name = "eq" /\ f.key = "gamma_r" THEN 11
    ELSE 2 * StatedRank(f)

InOrder(graph, Rank(_)) ==
    \A i, j \in DOMAIN graph : i < j => Rank(graph[i]) <= Rank(graph[j])

C20_SweepExaminesWholeListing ==
    (sw_pc = "sleep" /\ sw_result # "none") => sw_todo = {}

\* the requests between the write of `active_jobs += 1` (line 170) and the
\* write of `active_jobs -= 1` (line 279)
Counted == {r \in AllRequests : pc[r] \in {"save", "build", "register",
                "communicate", "kill_snapshot", "kill", "dec_read",
                "dec_write"}}

\* no request is being handled: each is still to come, was rejected, or
\* its handler has returned
NoneInFlight ==
    \A r \in AllRequests : pc[r] \in {"idle", "rejected", "returned"}

\* the check of line 137 lets a new submission through
SlotFree == active_jobs < MAX_CONCURRENT_JOBS

\* C21 (first half): a request that was submitted ends rejected or with
\* its handler returned, whether its subprocess exits or keeps running.
JobsTerminate == <>[](\A r \in Requests : pc[r] \in {"rejected", "returned"})

\* C21: every admitted job ends and gives its slot back: once no job is in
\* flight any more, a new submission is not rejected for concurrency.
C21_SlotReleased == NoneInFlight => SlotFree

\* C22: active_jobs is the number of requests that have executed the
\* increment and not yet the decrement (so it is never negative and is 0
\* when no request is in flight).
C22_CounterMatchesInFlight == active_jobs = Cardinality(Counted)

\* the input file and the output file of a job
JobFiles(r) == {InPath(r), OutPath(r)}

\* the request was admitted and its handler has not returned
BeingHandled(r) == pc[r] \notin {"idle", "rejected", "returned"}

\* seconds since the file was last modified
Age(p) == now - fs[p].mtime

\* the sweeper thread removes the file p in this step
SweeperRemoves(p) == sw_pc = "remove" /\ sw_cur = p /\ Exists(p) /\ ~Exists(p)'

\* C23: with a 3600 s retention window and a 600 s processing timeout, the
\* files of a job that is still being handled are never older than the
\* retention window, and no step of the Retention Sweeper removes one.
C23_SweeperSparesJobsInFlight ==
    /\ [](\A r \in OneRequest, p \in Paths :
            (p \in JobFiles(r) /\ BeingHandled(r) /\ Exists(p))
                => Age(p) <= RETENTION_WINDOW)
    /\ [][\A r \in OneRequest, p \in Paths :
            (p \in JobFiles(r) /\ BeingHandled(r)) => ~SweeperRemoves(p)]_vars

\* a sweep cycle that began when the job had waited for the whole timeout
\* has listed the job's input file, has ended, and the file is still there
C23_Witness ==
    \E r \in OneRequest :
        /\ Waiting(r) /\ now = WaitDeadline(r)
        /\ sw_pc = "sleep" /\ sw_result = "complete"
        /\ sw_cutoff = now - RETENTION_WINDOW
        /\ InPath(r) \in sw_listing
        /\ Exists(InPath(r))

\* the sweeper does remove the output file of a job whose handler returned
\* longer ago than the retention window
SweeperTakesOldOutput ==
    \E r \in OneRequest :
        Returned(r) /\ sw_pc = "remove" /\ sw_cur = OutPath(r)

\* the output file of the job is removed in this step
OutputRemoved(r) == Exists(OutPath(r)) /\ ~Exists(OutPath(r))'

\* C24: the output file of a successful job is removed by no step (of its
\* delayed_cleanup thread, of another thread, of the Retention Sweeper)
\* before the handler has returned and 300 s have passed since.
C24_OutputKeptForGracePeriod ==
    [][\A r \in OneRequest :
         (status[r] = 200 /\ OutputRemoved(r))
             => (Returned(r) /\ now >= returned_at[r] + GRACE_PERIOD)]_vars

\* the grace period of a successful job with a large output is over, a
\* sweep cycle that began after the handler returned has listed the output
\* file and ended, and the file is still there
C24_Witness ==
    \E r \in OneRequest :
        /\ Returned(r) /\ status[r] = 200
        /\ now = returned_at[r] + GRACE_PERIOD
        /\ sw_pc = "sleep" /\ sw_result = "complete"
        /\ sw_cutoff >= returned_at[r] - RETENTION_WINDOW
        /\ OutPath(r) \in sw_listing
        /\ Exists(OutPath(r)) /\ fs[OutPath(r)].size = 60

\* the delayed_cleanup thread has removed the output file of a successful
\* job at the end of the grace period
TimerTakesOutput ==
    \E r \in OneRequest :
        /\ status[r] = 200 /\ timer[r] = "done" /\ ~Exists(OutPath(r))
        /\ now = returned_at[r] + GRACE_PERIOD

====
